---- MODULE Spec2Model ----
(***************************************************************************)
(* Model of src/main.py: the whisper.cpp transcription API.                *)
(*                                                                         *)
(* Module load resolves the inference binary and the model once (lines     *)
(* 20-46).  POST /transcribe (lines 48-340) allocates a temporary          *)
(* directory, saves the upload, runs ffmpeg, then runs up to four          *)
(* inference attempts until one yields text, releases the directory and    *)
(* answers.  GET /health (lines 423-496) and GET / (lines 498-501) only    *)
(* read.  External processes (ffmpeg, the whisper binary) are opaque: their*)
(* exit code, output and files are inputs drawn from bounded sets.         *)
(*                                                                         *)
(* A Python str is a sequence of characters; the fixed message literals of *)
(* the responses are single opaque characters.                             *)
(***************************************************************************)
EXTENDS Integers, Sequences, FiniteSets, TLC

(***************************************************************************)
(* Bounds                                                                  *)
(***************************************************************************)
\* request slots (handlers that can be in flight at once)
NumReqs == 2
\* names tempfile.mkdtemp can return
NumDirs == 2
\* longest standard output / sidecar text an inference run produces
MaxOut == 1

(***************************************************************************)
(* Program constants                                                       *)
(***************************************************************************)
\* line 37: a base model must be larger than this
BaseMinSize == 100000000
\* line 40: a tiny model must be larger than this
TinyMinSize == 10000000
\* lines 450, 454: the size /health asks of the active model
ActiveMinSize == 10000000

WHISPER_BINARY_MAIN == "build/bin/main"
WHISPER_BINARY_CLI == "build/bin/whisper-cli"
BASE_MODEL_PATH == "models/base.en.bin"
TINY_MODEL_PATH == "models/tiny.en.bin"

Reqs == 1..NumReqs
\* the names tempfile.mkdtemp can return
Dirs == {<<"tmp", i>> : i \in 1..NumDirs}

(***************************************************************************)
(* Python strings                                                          *)
(***************************************************************************)
NL == "\n"
\* "W" stands for an occurrence of one of the warning substrings of lines
\* 153-155 ("WARNING:", "deprecated", "whisper-cli", "https://github.com")
WarningPatterns == {"W"}
OutChars == {"a", " ", "[", "W", NL}
TxtChars == {"a", " ", NL}

\* the value None
None == <<"None">>
\* line 320, the exhaustion message
Sentinel == <<"Could not generate transcript">>
\* line 89, the prefix of the decoder-failure message
ErrFfmpeg == <<"Error: Failed to convert audio file. ffmpeg error: ">>
\* line 96
ErrConvert == <<"Error: Failed to convert audio file">>
\* line 338
ErrInternal == <<"Internal server error">>

RECURSIVE StringsUpTo(_, _)
StringsUpTo(chars, n) ==
    IF n = 0 THEN {<<>>}
    ELSE LET shorter == StringsUpTo(chars, n - 1)
         IN shorter \cup {Append(s, c) : s \in shorter, c \in chars}

\* bool(s) of Python for a str or None
Truthy(s) == s # None /\ s # <<>>

IsSpace(c) == c \in {" ", NL}

RECURSIVE LStrip(_)
LStrip(s) == IF s # <<>> /\ IsSpace(Head(s)) THEN LStrip(Tail(s)) ELSE s

RECURSIVE RStrip(_)
RStrip(s) ==
    IF s # <<>> /\ IsSpace(s[Len(s)]) THEN RStrip(SubSeq(s, 1, Len(s) - 1)) ELSE s

\* str.strip()
Strip(s) == RStrip(LStrip(s))

\* str.split("\n")
RECURSIVE Split(_)
Split(s) ==
    IF \E i \in 1..Len(s) : s[i] = NL
    THEN LET i == CHOOSE k \in 1..Len(s) :
                      s[k] = NL /\ \A j \in 1..(k - 1) : s[j] # NL
         IN <<SubSeq(s, 1, i - 1)>> \o Split(SubSeq(s, i + 1, Len(s)))
    ELSE <<s>>

\* "\n".join(lines)
RECURSIVE Join(_)
Join(lines) ==
    IF lines = <<>> THEN <<>>
    ELSE IF Len(lines) = 1 THEN lines[1]
    ELSE lines[1] \o <<NL>> \o Join(Tail(lines))

\* any(warning in line for warning in [...])
HasWarning(line) == \E i \in 1..Len(line) : line[i] \in WarningPatterns

\* line.startswith('[')
StartsWithBracket(line) == line # <<>> /\ line[1] = "["

(***************************************************************************)
(* State                                                                   *)
(***************************************************************************)
VARIABLES
    fs,              \* the installation: binaries and model files on disk
    WHISPER_BINARY,  \* lines 26-31
    MODEL_PATH,      \* lines 37-46
    dirs,            \* the temporary directories that exist
    artifacts,       \* the files in the directory of each request
    tasks,           \* background tasks added to a response and not yet run
    pc,              \* where each request's handler stands
    bg,              \* whether the handler was given a BackgroundTasks object
    temp_dir,        \* line 53
    convert_result,  \* lines 78-84: how ffmpeg ended and the output file it left
    transcript,      \* line 101
    approaches_tried,\* line 102
    invoked,         \* the inference commands handed to subprocess.run so far
    last_run,        \* how the latest of them ended
    allocated,       \* the directories mkdtemp gave this request
    releases,        \* the release operations run on the directory of each request
    fault,           \* a release raised to its caller
    resp,            \* the response of the request
    test_dir,        \* line 354: the directory of the running self-test
    lastGet          \* the answer of GET /health or GET /, when the latest
                     \* step was one of them

vars == <<fs, WHISPER_BINARY, MODEL_PATH, dirs, artifacts, tasks, pc, bg, temp_dir,
          convert_result,
          transcript, approaches_tried, invoked, last_run, allocated, releases,
          fault, resp, test_dir, lastGet>>

config == <<fs, WHISPER_BINARY, MODEL_PATH>>
locals == <<bg, temp_dir, convert_result, transcript, approaches_tried, invoked, last_run,
            allocated>>

\* temp_dir before line 53 binds it
NoDir == <<>>
NoConvert == [state |-> "none", rc |-> 0, stderr |-> <<>>, wav |-> "absent"]
NoGet == [kind |-> "none"]
NoRun == [state |-> "none", rc |-> 0]
NoResp == [status |-> 0, transcript |-> None]

(***************************************************************************)
(* The installation and engine discovery (lines 20-46)                     *)
(***************************************************************************)
BinStates == {"missing", "noexec", "exec"}
ModelFiles ==
    {[exists |-> FALSE, size |-> 0]} \cup
    {[exists |-> TRUE, size |-> n] :
        n \in {0, TinyMinSize, TinyMinSize + 1, BaseMinSize, BaseMinSize + 1}}

Installations ==
    [cli : BinStates, main : BinStates, base : ModelFiles, tiny : ModelFiles]

\* the installations the request handlers are explored on: one model file of
\* every validity class
ServingInstallations ==
    {i \in Installations :
        /\ <<i.cli, i.main>> \in {<<"exec", "exec">>, <<"missing", "exec">>,
                                  <<"noexec", "noexec">>, <<"missing", "missing">>}
        /\ i.base.size \in {0, BaseMinSize, BaseMinSize + 1}
        /\ i.tiny.size \in {0, TinyMinSize, TinyMinSize + 1}
        /\ (i.base.size = 0 => ~i.base.exists)
        /\ (i.tiny.size = 0 => ~i.tiny.exists)}

BinaryOf(f, path) == IF path = WHISPER_BINARY_CLI THEN f.cli ELSE f.main
ModelOf(f, path) == IF path = BASE_MODEL_PATH THEN f.base ELSE f.tiny

\* os.path.exists, os.access(.., os.X_OK), os.path.getsize
BinaryExists(f, path) == BinaryOf(f, path) # "missing"
BinaryExecutable(f, path) == BinaryOf(f, path) = "exec"
ModelExists(f, path) == ModelOf(f, path).exists
ModelSize(f, path) == ModelOf(f, path).size

\* lines 26-31
ResolveBinary(f) ==
    IF BinaryExists(f, WHISPER_BINARY_CLI) /\ BinaryExecutable(f, WHISPER_BINARY_CLI)
    THEN WHISPER_BINARY_CLI
    ELSE WHISPER_BINARY_MAIN

\* ResolveModel asking of the base model the size it asks of the tiny model
ResolveModel_OneThreshold(f) ==
    IF ModelExists(f, BASE_MODEL_PATH) /\ ModelSize(f, BASE_MODEL_PATH) > TinyMinSize
    THEN BASE_MODEL_PATH
    ELSE IF ModelExists(f, TINY_MODEL_PATH) /\ ModelSize(f, TINY_MODEL_PATH) > TinyMinSize
    THEN TINY_MODEL_PATH
    ELSE BASE_MODEL_PATH

\* lines 37-46
ResolveModel(f) ==
    IF ModelExists(f, BASE_MODEL_PATH) /\ ModelSize(f, BASE_MODEL_PATH) > BaseMinSize
    THEN BASE_MODEL_PATH
    ELSE IF ModelExists(f, TINY_MODEL_PATH) /\ ModelSize(f, TINY_MODEL_PATH) > TinyMinSize
    THEN TINY_MODEL_PATH
    ELSE BASE_MODEL_PATH

InitOn(installations) ==
    /\ fs \in installations
    /\ WHISPER_BINARY = ResolveBinary(fs)
    /\ MODEL_PATH = ResolveModel(fs)
    /\ dirs = {}
    /\ artifacts = [r \in Reqs |-> {}]
    /\ tasks = {}
    /\ pc = [r \in Reqs |-> "idle"]
    /\ bg = [r \in Reqs |-> FALSE]
    /\ temp_dir = [r \in Reqs |-> NoDir]
    /\ convert_result = [r \in Reqs |-> NoConvert]
    /\ transcript = [r \in Reqs |-> None]
    /\ approaches_tried = [r \in Reqs |-> 0]
    /\ invoked = [r \in Reqs |-> <<>>]
    /\ last_run = [r \in Reqs |-> NoRun]
    /\ allocated = [r \in Reqs |-> <<>>]
    /\ releases = [r \in Reqs |-> <<>>]
    /\ fault = FALSE
    /\ resp = [r \in Reqs |-> NoResp]
    /\ test_dir = NoDir
    /\ lastGet = NoGet

Init == InitOn(ServingInstallations)

(***************************************************************************)
(* External processes                                                      *)
(***************************************************************************)
Stdouts == StringsUpTo(OutChars, MaxOut)
SidecarTexts == StringsUpTo(TxtChars, MaxOut)
ExitCodes == {0, 1}

\* What one ffmpeg run can do (lines 78-84): its exit code, its error stream
\* and the output file it leaves; or it never exits.
ConvertOutcomes ==
    [kind : {"exit"}, rc : ExitCodes, stderr : {<<>>, <<"a">>},
     wav : {"absent", "empty", "data"}]
    \cup {[kind |-> "hang"]}

\* What one run of the whisper binary can do (lines 127-132, 189-194, 243-248,
\* 286-291): exit code, standard output and, when asked for it, the sidecar
\* text file (None: no file written); or it never exits.  A run whose model
\* file does not exist cannot load it: it exits non-zero and writes no file.
WritesSidecar(cmd) == \E i \in 1..Len(cmd.opts) : cmd.opts[i] \in {"--output-txt", "-otxt"}

InferenceOutcomes(cmd) ==
    {o \in [kind : {"exit"}, rc : ExitCodes, stdout : Stdouts,
            txt : {None} \cup SidecarTexts] :
        /\ (~WritesSidecar(cmd) => o.txt = None)
        /\ (~ModelExists(fs, cmd.model) => o.rc # 0 /\ o.txt = None)}
    \cup {[kind |-> "hang"]}

(***************************************************************************)
(* The commands (lines 108-123, 172-187, 228-241, 273-284)                 *)
(***************************************************************************)
Modern == WHISPER_BINARY = WHISPER_BINARY_CLI

Command(model, modernOpts, legacyOpts) ==
    IF Modern
    THEN [binary |-> WHISPER_BINARY, mflag |-> "--model", model |-> model,
          fflag |-> "--file", opts |-> modernOpts]
    ELSE [binary |-> WHISPER_BINARY, mflag |-> "-m", model |-> model,
          fflag |-> "-f", opts |-> legacyOpts]

\* lines 108-123
whisper_cmd == Command(MODEL_PATH, <<"--output-txt">>, <<"-otxt">>)
\* stream_cmd with the options of the language attempt: the two attempts
\* swapped
stream_cmd_language ==
    Command(MODEL_PATH, <<"--language", "en">>, <<"-l", "en">>)

\* lines 172-187
stream_cmd ==
    Command(MODEL_PATH, <<"--print-special", "--print-progress">>,
            <<"--print-special", "--print-progress">>)
\* lang_cmd with the options of the streaming attempt: the streaming
\* invocation made a second time
lang_cmd_Streaming ==
    Command(MODEL_PATH, <<"--print-special", "--print-progress">>,
            <<"--print-special", "--print-progress">>)
\* lines 228-241
lang_cmd == Command(MODEL_PATH, <<"--language", "en">>, <<"-l", "en">>)
\* tiny_cmd without the test of line 273: the -m/-f form whatever the binary
tiny_cmd_Legacy ==
    [binary |-> WHISPER_BINARY, mflag |-> "-m", model |-> TINY_MODEL_PATH,
     fflag |-> "-f", opts |-> <<>>]
\* lines 273-284
tiny_cmd == Command(TINY_MODEL_PATH, <<>>, <<>>)

(***************************************************************************)
(* Result extraction                                                       *)
(***************************************************************************)
\* lines 151-161: the lines attempt 1 keeps
KeepStandard(line) == ~HasWarning(line) /\ Strip(line) # <<>>
\* lines 204-217
KeepStream(line) ==
    ~HasWarning(line) /\ ~StartsWithBracket(line) /\ Strip(line) # <<>>
\* lines 256-262
KeepLang(line) ==
    ~(HasWarning(line) \/ StartsWithBracket(line) \/ Strip(line) = <<>>)
\* lines 299-305
KeepTiny(line) ==
    ~(HasWarning(line) \/ StartsWithBracket(line) \/ Strip(line) = <<>>)

\* ExtractStandard parsing standard output first and reading the sidecar file
\* only when that gave nothing
ExtractStandard_StdoutFirst(t, o) ==
    LET filtered_lines == SelectSeq(Split(o.stdout), KeepStandard)
    IN IF filtered_lines # <<>> THEN Join(filtered_lines)
       ELSE IF o.txt # None THEN Strip(o.txt)
       ELSE t

\* lines 138-165: the transcript after attempt 1, from the value before it
ExtractStandard(t, o) ==
    LET fromFile == IF o.txt # None THEN Strip(o.txt) ELSE t
        filtered_lines == SelectSeq(Split(o.stdout), KeepStandard)
    IN IF Truthy(fromFile) THEN fromFile
       ELSE IF filtered_lines # <<>> THEN Join(filtered_lines)
       ELSE fromFile

\* lines 198-221
ExtractStream(t, o) ==
    LET content_lines == SelectSeq(Split(o.stdout), KeepStream)
    IN IF o.stdout # <<>> /\ content_lines # <<>> THEN Join(content_lines) ELSE t

\* lines 252-266
ExtractLang(t, o) ==
    LET content_lines == SelectSeq(Split(o.stdout), KeepLang)
    IN IF o.stdout # <<>> /\ content_lines # <<>> THEN Join(content_lines) ELSE t

\* lines 295-309
ExtractTiny(t, o) ==
    LET content_lines == SelectSeq(Split(o.stdout), KeepTiny)
    IN IF o.stdout # <<>> /\ content_lines # <<>> THEN Join(content_lines) ELSE t

(***************************************************************************)
(* The workspace                                                           *)
(***************************************************************************)
\* tempfile.mkdtemp returning any name, one that exists included
mkdtemp_Reusing(ds) == Dirs

\* tempfile.mkdtemp (lines 53, 354): the names it can return, given the
\* directories ds that exist: it creates the directory and fails on a name
\* that is taken
mkdtemp(ds) == Dirs \ ds

\* shutil.rmtree: removes the directory and all in it, raises when it does not
\* exist
rmtree(ds, d) == [dirs |-> ds \ {d}, raised |-> d \notin ds]

\* cleanup_temp_files without the os.path.exists test and without the try:
\* what rmtree raises reaches the caller
cleanup_temp_files_Unguarded(ds, d) ==
    LET done == rmtree(ds, d)
    IN [dirs |-> done.dirs, removed |-> ~done.raised, raised |-> done.raised]

\* lines 342-349: the except clause logs and returns, nothing is raised
cleanup_temp_files(ds, d) ==
    LET exists == d \in ds
        done == IF exists THEN rmtree(ds, d) ELSE [dirs |-> ds, raised |-> FALSE]
    IN [dirs |-> done.dirs, removed |-> exists /\ ~done.raised, raised |-> FALSE]

\* lines 330-335: the cleanup of the except clause of transcribe
handler_cleanup(ds, d) ==
    LET exists == d \in ds
        done == IF exists THEN rmtree(ds, d) ELSE [dirs |-> ds, raised |-> FALSE]
    IN [dirs |-> done.dirs, removed |-> exists /\ ~done.raised, raised |-> FALSE]

\* the files of the requests once the directories ds are what is left
Surviving(ds) == [r \in Reqs |-> IF temp_dir[r] \in ds THEN artifacts[r] ELSE {}]

Released(by, res) == [by |-> by, removed |-> res.removed]

(***************************************************************************)
(* POST /transcribe (lines 48-340)                                         *)
(***************************************************************************)
\* lines 49-54: a request arrives and mkdtemp creates a directory under a name
\* that does not exist
Start(r) ==
    /\ pc[r] = "idle"
    /\ \E d \in mkdtemp(dirs) :
        /\ dirs' = dirs \cup {d}
        /\ temp_dir' = [temp_dir EXCEPT ![r] = d]
        /\ allocated' = [allocated EXCEPT ![r] = <<d>>]
    /\ artifacts' = [artifacts EXCEPT ![r] = {}]
    /\ releases' = [releases EXCEPT ![r] = <<>>]
    /\ bg' = [bg EXCEPT ![r] = FALSE]
    /\ convert_result' = [convert_result EXCEPT ![r] = NoConvert]
    /\ transcript' = [transcript EXCEPT ![r] = None]
    /\ approaches_tried' = [approaches_tried EXCEPT ![r] = 0]
    /\ invoked' = [invoked EXCEPT ![r] = <<>>]
    /\ last_run' = [last_run EXCEPT ![r] = NoRun]
    /\ resp' = [resp EXCEPT ![r] = NoResp]
    /\ pc' = [pc EXCEPT ![r] = "save"]
    /\ lastGet' = NoGet
    /\ UNCHANGED <<config, tasks, fault>>

\* lines 58-65: the upload is written, or writing it raises (the file is
\* created by then)
SaveUpload(r) ==
    /\ pc[r] = "save"
    /\ artifacts' = [artifacts EXCEPT ![r] = @ \cup {"input"}]
    /\ \/ pc' = [pc EXCEPT ![r] = "convert"]
       \/ pc' = [pc EXCEPT ![r] = "except"]
    /\ lastGet' = NoGet
    /\ UNCHANGED <<config, dirs, tasks, locals, releases, fault, resp>>

\* DecodeFailed without the check of the output file (lines 93-98 left out)
DecodeFailed_ExitCodeOnly(o) == o.rc # 0

\* lines 86-98: what the handler makes of an ffmpeg run that exited
DecodeFailed(o) == o.rc # 0 \/ o.wav \in {"absent", "empty"}

\* ConvertError leaving the standard error of ffmpeg out of the response
ConvertError_NoStderr(o) == [status |-> 500, transcript |-> ErrFfmpeg]

\* lines 88-91: the response to a non-zero exit of ffmpeg
ConvertError(o) == [status |-> 500, transcript |-> ErrFfmpeg \o o.stderr]

\* lines 67-102
Convert(r) ==
    /\ pc[r] = "convert"
    /\ \E o \in ConvertOutcomes :
        IF o.kind = "hang"
        THEN /\ convert_result' = [convert_result EXCEPT ![r] =
                                      [state |-> "running", rc |-> 0, stderr |-> <<>>,
                                       wav |-> "absent"]]
             /\ pc' = [pc EXCEPT ![r] = "blocked"]
             /\ UNCHANGED <<artifacts, resp>>
        ELSE /\ convert_result' = [convert_result EXCEPT ![r] =
                                      [state |-> "exited", rc |-> o.rc,
                                       stderr |-> o.stderr, wav |-> o.wav]]
             /\ artifacts' = IF o.wav = "absent" THEN artifacts
                             ELSE [artifacts EXCEPT ![r] = @ \cup {"wav"}]
             /\ IF o.rc # 0
                THEN /\ resp' = [resp EXCEPT ![r] = ConvertError(o)]
                     /\ pc' = [pc EXCEPT ![r] = "done"]
                ELSE IF DecodeFailed(o)
                THEN /\ resp' = [resp EXCEPT ![r] =
                                   [status |-> 500, transcript |-> ErrConvert]]
                     /\ pc' = [pc EXCEPT ![r] = "done"]
                ELSE /\ resp' = resp
                     /\ pc' = [pc EXCEPT ![r] = "standard"]
    /\ lastGet' = NoGet
    /\ UNCHANGED <<config, dirs, tasks, bg, temp_dir, transcript, approaches_tried,
                   invoked, last_run, allocated, releases, fault>>

Ended(state, rc) == [state |-> state, rc |-> rc]

\* line 168
StreamGuard(t) == ~Truthy(t)
\* line 224
LangGuard(t) == ~Truthy(t)
\* line 269
TinyGuard(t) ==
    /\ ~Truthy(t)
    /\ MODEL_PATH = BASE_MODEL_PATH
    /\ ModelExists(fs, TINY_MODEL_PATH)

\* AfterStandard without the test of line 168: the streaming attempt runs
\* whatever attempt 1 extracted
AfterStandard_Unguarded(t) == "stream"

\* The ifs of lines 168, 224 and 269 that follow an attempt, taken on the
\* transcript t it left: the next block that runs.
AfterLang(t) == IF TinyGuard(t) THEN "tiny" ELSE "cleanup"
AfterStream(t) == IF LangGuard(t) THEN "lang" ELSE AfterLang(t)
AfterStandard(t) == IF StreamGuard(t) THEN "stream" ELSE AfterStream(t)
AfterTiny(t) == "cleanup"

\* the extraction of the approach, applied to the transcript t and the run o
Extract(approach, t, o) ==
    CASE approach = "standard" -> ExtractStandard(t, o)
      [] approach = "stream" -> ExtractStream(t, o)
      [] approach = "lang" -> ExtractLang(t, o)
      [] approach = "tiny" -> ExtractTiny(t, o)

\* the block that runs after the approach left the transcript t
After(approach, t) ==
    CASE approach = "standard" -> AfterStandard(t)
      [] approach = "stream" -> AfterStream(t)
      [] approach = "lang" -> AfterLang(t)
      [] approach = "tiny" -> AfterTiny(t)

\* One subprocess.run of the whisper binary followed by the extraction of its
\* text.  subprocess.run raises when the binary cannot be executed, and has no
\* timeout: a run that never exits is waited for.
RunAttempt(r, cmd, approach) ==
    /\ approaches_tried' = [approaches_tried EXCEPT ![r] = @ + 1]
    /\ invoked' = [invoked EXCEPT ![r] = Append(@, cmd)]
    /\ IF ~BinaryExecutable(fs, cmd.binary)
       THEN /\ last_run' = [last_run EXCEPT ![r] = Ended("not started", 0)]
            /\ pc' = [pc EXCEPT ![r] = "except"]
            /\ UNCHANGED <<artifacts, transcript>>
       ELSE \E o \in InferenceOutcomes(cmd) :
            IF o.kind = "hang"
            THEN /\ last_run' = [last_run EXCEPT ![r] = Ended("running", 0)]
                 /\ pc' = [pc EXCEPT ![r] = "blocked"]
                 /\ UNCHANGED <<artifacts, transcript>>
            ELSE /\ last_run' = [last_run EXCEPT ![r] = Ended("exited", o.rc)]
                 /\ artifacts' = IF o.txt = None THEN artifacts
                                 ELSE [artifacts EXCEPT ![r] = @ \cup {"txt"}]
                 /\ transcript' = [transcript EXCEPT ![r] = Extract(approach, @, o)]
                 /\ pc' = [pc EXCEPT ![r] =
                              After(approach, Extract(approach, transcript[r], o))]
    /\ lastGet' = NoGet
    /\ UNCHANGED <<config, dirs, tasks, bg, temp_dir, convert_result, allocated,
                   releases, fault, resp>>

\* lines 104-165
Standard(r) ==
    /\ pc[r] = "standard"
    /\ RunAttempt(r, whisper_cmd, "standard")

\* lines 167-221
Stream(r) ==
    /\ pc[r] = "stream"
    /\ RunAttempt(r, stream_cmd, "stream")

\* lines 223-266
Lang(r) ==
    /\ pc[r] = "lang"
    /\ RunAttempt(r, lang_cmd, "lang")

\* lines 268-309
Tiny(r) ==
    /\ pc[r] = "tiny"
    /\ RunAttempt(r, tiny_cmd, "tiny")

\* Answer testing "transcript is None" in place of "not transcript"
Answer_NoneOnly(t) ==
    IF t = None THEN [status |-> 200, transcript |-> Sentinel]
    ELSE [status |-> 200, transcript |-> t]

\* lines 317-322
Answer(t) ==
    IF ~Truthy(t) THEN [status |-> 200, transcript |-> Sentinel]
    ELSE [status |-> 200, transcript |-> t]

\* CleanupAndReturn with a statement that raises after the release: the except
\* clause runs as well
CleanupThenRaise(r) ==
    /\ pc[r] = "cleanup"
    /\ \E background_tasks \in BOOLEAN :
        /\ bg' = [bg EXCEPT ![r] = background_tasks]
        /\ IF background_tasks
           THEN /\ tasks' = tasks \cup {temp_dir[r]}
                /\ UNCHANGED <<dirs, artifacts, releases, fault>>
           ELSE LET res == cleanup_temp_files(dirs, temp_dir[r])
                IN /\ dirs' = res.dirs
                   /\ artifacts' = Surviving(res.dirs)
                   /\ releases' = [releases EXCEPT ![r] =
                                      Append(@, Released("direct", res))]
                   /\ fault' = (fault \/ res.raised)
                   /\ tasks' = tasks
    /\ pc' = [pc EXCEPT ![r] = "except"]
    /\ lastGet' = NoGet
    /\ UNCHANGED <<config, temp_dir, convert_result, transcript, approaches_tried,
                   invoked, last_run, allocated, resp>>

\* CleanupAndReturn with the tiny-model attempt moved after the release: an
\* empty transcript sends the handler on into the attempt
CleanupThenFallback(r) ==
    /\ pc[r] = "cleanup"
    /\ \E background_tasks \in BOOLEAN :
        /\ bg' = [bg EXCEPT ![r] = background_tasks]
        /\ IF background_tasks
           THEN /\ tasks' = tasks \cup {temp_dir[r]}
                /\ UNCHANGED <<dirs, artifacts, releases, fault>>
           ELSE LET res == cleanup_temp_files(dirs, temp_dir[r])
                IN /\ dirs' = res.dirs
                   /\ artifacts' = Surviving(res.dirs)
                   /\ releases' = [releases EXCEPT ![r] =
                                      Append(@, Released("direct", res))]
                   /\ fault' = (fault \/ res.raised)
                   /\ tasks' = tasks
    /\ IF ~Truthy(transcript[r]) /\ Len(invoked[r]) < 4
       THEN /\ pc' = [pc EXCEPT ![r] = "tiny"]
            /\ resp' = resp
       ELSE /\ pc' = [pc EXCEPT ![r] = "done"]
            /\ resp' = [resp EXCEPT ![r] = Answer(transcript[r])]
    /\ lastGet' = NoGet
    /\ UNCHANGED <<config, temp_dir, convert_result, transcript, approaches_tried,
                   invoked, last_run, allocated>>

\* lines 311-322: the directory is released, at once or by a background task
\* that runs after the response, and the handler returns.  background_tasks is
\* an argument of the request (line 49), read here for the first time: a
\* BackgroundTasks object under the framework, None in a direct call.
CleanupAndReturn(r) ==
    /\ pc[r] = "cleanup"
    /\ \E background_tasks \in BOOLEAN :
        /\ bg' = [bg EXCEPT ![r] = background_tasks]
        /\ IF background_tasks
           THEN /\ tasks' = tasks \cup {temp_dir[r]}
                /\ UNCHANGED <<dirs, artifacts, releases, fault>>
           ELSE LET res == cleanup_temp_files(dirs, temp_dir[r])
                IN /\ dirs' = res.dirs
                   /\ artifacts' = Surviving(res.dirs)
                   /\ releases' = [releases EXCEPT ![r] =
                                      Append(@, Released("direct", res))]
                   /\ fault' = (fault \/ res.raised)
                   /\ tasks' = tasks
    /\ resp' = [resp EXCEPT ![r] = Answer(transcript[r])]
    /\ pc' = [pc EXCEPT ![r] = "done"]
    /\ lastGet' = NoGet
    /\ UNCHANGED <<config, temp_dir, convert_result, transcript, approaches_tried,
                   invoked, last_run, allocated>>

\* lines 324-340
ExceptHandler(r) ==
    /\ pc[r] = "except"
    /\ LET res == handler_cleanup(dirs, temp_dir[r])
       IN /\ dirs' = res.dirs
          /\ artifacts' = Surviving(res.dirs)
          /\ releases' = [releases EXCEPT ![r] =
                             Append(@, Released("handler", res))]
          /\ fault' = (fault \/ res.raised)
    /\ resp' = [resp EXCEPT ![r] = [status |-> 500, transcript |-> ErrInternal]]
    /\ pc' = [pc EXCEPT ![r] = "done"]
    /\ lastGet' = NoGet
    /\ UNCHANGED <<config, tasks, locals>>

\* The response has been sent: the request is over, the locals of its handler
\* are gone and the event loop is free for the next request.
Finish(r) ==
    /\ pc[r] = "done"
    /\ pc' = [pc EXCEPT ![r] = "idle"]
    /\ artifacts' = [artifacts EXCEPT ![r] = {}]
    /\ releases' = [releases EXCEPT ![r] = <<>>]
    /\ bg' = [bg EXCEPT ![r] = FALSE]
    /\ temp_dir' = [temp_dir EXCEPT ![r] = NoDir]
    /\ convert_result' = [convert_result EXCEPT ![r] = NoConvert]
    /\ transcript' = [transcript EXCEPT ![r] = None]
    /\ approaches_tried' = [approaches_tried EXCEPT ![r] = 0]
    /\ invoked' = [invoked EXCEPT ![r] = <<>>]
    /\ last_run' = [last_run EXCEPT ![r] = NoRun]
    /\ allocated' = [allocated EXCEPT ![r] = <<>>]
    /\ resp' = [resp EXCEPT ![r] = NoResp]
    /\ lastGet' = NoGet
    /\ UNCHANGED <<config, dirs, tasks, fault>>

\* a background task of a sent response runs cleanup_temp_files (line 313)
BackgroundCleanup ==
    \E d \in tasks :
        LET res == cleanup_temp_files(dirs, d)
        IN /\ dirs' = res.dirs
           /\ artifacts' = Surviving(res.dirs)
           /\ releases' = [r \in Reqs |->
                             IF temp_dir[r] = d
                             THEN Append(releases[r], Released("deferred", res))
                             ELSE releases[r]]
           /\ fault' = (fault \/ res.raised)
           /\ tasks' = tasks \ {d}
           /\ lastGet' = NoGet
           /\ UNCHANGED <<config, pc, locals, resp, test_dir>>

\* The handler of one request.  It is a coroutine that never awaits: it runs
\* only while no other handler holds the event loop, the self-test included.
transcribe(r) ==
    /\ test_dir = NoDir
    /\ UNCHANGED test_dir
    /\ \/ Start(r)
       \/ SaveUpload(r)
       \/ Convert(r)
       \/ Standard(r)
       \/ Stream(r)
       \/ Lang(r)
       \/ Tiny(r)
       \/ CleanupAndReturn(r)
       \/ ExceptHandler(r)
       \/ Finish(r)

(***************************************************************************)
(* GET /health (lines 423-496) and GET / (lines 498-501)                   *)
(***************************************************************************)
\* line 441
HealthBaseMinSize == 100000000
\* line 445
HealthTinyMinSize == 10000000

HealthReport(f, binary, model) ==
    LET binary_exists == BinaryExists(f, binary)
        is_executable == IF binary_exists THEN BinaryExecutable(f, binary) ELSE FALSE
        base_model_size == IF ModelExists(f, BASE_MODEL_PATH)
                           THEN ModelSize(f, BASE_MODEL_PATH) ELSE 0
        tiny_model_size == IF ModelExists(f, TINY_MODEL_PATH)
                           THEN ModelSize(f, TINY_MODEL_PATH) ELSE 0
        model_exists == ModelExists(f, model)
        model_size == IF model_exists THEN ModelSize(f, model) ELSE 0
    IN [kind |-> "health",
        status |-> IF binary_exists /\ is_executable /\ model_exists
                      /\ model_size > ActiveMinSize
                   THEN "healthy" ELSE "unhealthy",
        binary_exists |-> binary_exists,
        binary_executable |-> is_executable,
        model_path |-> model,
        model_exists |-> model_exists,
        model_size |-> model_size,
        model_status |-> IF model_size > ActiveMinSize
                         THEN "Valid" ELSE "Invalid/Corrupted",
        base_status |-> IF base_model_size > HealthBaseMinSize
                        THEN "Valid" ELSE "Invalid/Corrupted",
        tiny_status |-> IF tiny_model_size > HealthTinyMinSize
                        THEN "Valid" ELSE "Invalid/Corrupted"]

\* One server process.  transcribe is a coroutine that never awaits, so the
\* event loop runs one handler at a time, and the next request takes the slot of
\* the one that returned; the background tasks (a thread pool) and the other
\* endpoints run in between.
Worker == CHOOSE r \in Reqs : \A q \in Reqs : r <= q

\* no handler is running
Quiet == pc[Worker] = "idle" /\ test_dir = NoDir

\* health_check running discovery again with the tiny model first and
\* rebinding MODEL_PATH
health_check_Rediscovering ==
    /\ Quiet
    /\ MODEL_PATH' = IF ModelExists(fs, TINY_MODEL_PATH) THEN TINY_MODEL_PATH
                     ELSE BASE_MODEL_PATH
    /\ lastGet' = HealthReport(fs, WHISPER_BINARY, MODEL_PATH')
    /\ UNCHANGED <<fs, WHISPER_BINARY, dirs, artifacts, tasks, pc, locals, releases,
                   fault, resp, test_dir>>

health_check ==
    /\ Quiet
    /\ lastGet' = HealthReport(fs, WHISPER_BINARY, MODEL_PATH)
    /\ UNCHANGED <<config, dirs, artifacts, tasks, pc, locals, releases, fault, resp,
                   test_dir>>

root ==
    /\ Quiet
    /\ lastGet' = [kind |-> "root", message |-> "Whisper API is running"]
    /\ UNCHANGED <<config, dirs, artifacts, tasks, pc, locals, releases, fault, resp,
                   test_dir>>

(***************************************************************************)
(* GET /test-whisper (lines 351-421)                                       *)
(***************************************************************************)
\* lines 368-381
test_whisper_cmd == Command(MODEL_PATH, <<"--output-txt">>, <<"-otxt">>)

\* lines 415-421: the answer of the except clause
TestError == [kind |-> "test", error |-> TRUE]

\* lines 396-406: the answer after a run of the whisper binary that exited
\* with exit_code; its texts (stdout, stderr, txt_content) are left out
TestResult(f, cmd, exit_code, txt_file_exists) ==
    [kind |-> "test", error |-> FALSE, command |-> cmd, exit_code |-> exit_code,
     txt_file_exists |-> txt_file_exists, binary_path |-> cmd.binary,
     model_path |-> cmd.model,
     model_size |-> IF ModelExists(f, cmd.model) THEN ModelSize(f, cmd.model) ELSE 0]

\* lines 383-394: what the result keeps of the runs of the whisper binary that
\* exit: the exit code and whether the sidecar file was written
TestRuns ==
    {[exit_code |-> o.rc, txt_file_exists |-> o.txt # None] :
        o \in {x \in InferenceOutcomes(test_whisper_cmd) : x.kind = "exit"}}

\* lines 352-355: the self-test starts and mkdtemp creates its directory
TestStart ==
    /\ Quiet
    /\ \E d \in mkdtemp(dirs) :
        /\ dirs' = dirs \cup {d}
        /\ test_dir' = d
    /\ lastGet' = NoGet
    /\ UNCHANGED <<config, artifacts, tasks, pc, locals, releases, fault, resp>>

\* lines 357-421: ffmpeg makes the test file (check=True: a failure raises),
\* the whisper binary runs on it (a binary that cannot be executed raises), the
\* directory is removed and the result returned; the except clause removes the
\* directory when it exists and returns the error.  A run that never exits is
\* the handler never taking this step.
TestEnd ==
    /\ test_dir # NoDir
    /\ \E created \in BOOLEAN :
        IF ~created \/ ~BinaryExecutable(fs, test_whisper_cmd.binary)
        THEN /\ dirs' = IF test_dir \in dirs THEN rmtree(dirs, test_dir).dirs ELSE dirs
             /\ lastGet' = TestError
        ELSE \E run \in TestRuns :
             LET done == rmtree(dirs, test_dir)
             IN /\ dirs' = done.dirs
                /\ lastGet' = IF done.raised THEN TestError
                              ELSE TestResult(fs, test_whisper_cmd, run.exit_code,
                                              run.txt_file_exists)
    /\ test_dir' = NoDir
    /\ artifacts' = Surviving(dirs')
    /\ UNCHANGED <<config, tasks, pc, locals, releases, fault, resp>>

test_whisper == TestStart \/ TestEnd

(***************************************************************************)
(* The server                                                              *)
(***************************************************************************)
Next ==
    \/ transcribe(Worker)
    \/ BackgroundCleanup
    \/ test_whisper
    \/ health_check
    \/ root

Spec == Init /\ [][Next]_vars

(***************************************************************************)
(* Properties                                                              *)
(***************************************************************************)
\* the handler of request r has returned its response
Returned(r) == pc[r] = "done"
\* a release of the directory of request r is still to run
ReleasePending(r) == temp_dir[r] \in tasks
\* the decode stage of request r failed: ffmpeg exited non-zero, or left no
\* output file or an empty one
DecodeFailure(r) ==
    /\ convert_result[r].state = "exited"
    /\ convert_result[r].rc # 0 \/ convert_result[r].wav \in {"absent", "empty"}

\* C1: on every exit path of the handler the temporary directory of the
\* request is removed, at once or by the deferred task: a request that has
\* returned and has no release pending has no directory left on disk.
C1_WorkspaceRemovedOnEveryExit ==
    \A r \in Reqs : (Returned(r) /\ ~ReleasePending(r)) => temp_dir[r] \notin dirs

SuccessReleases(r) ==
    {i \in 1..Len(releases[r]) : releases[r][i].by \in {"direct", "deferred"}}
HandlerReleases(r) ==
    {i \in 1..Len(releases[r]) : releases[r][i].by = "handler"}
Removals(r) == {i \in 1..Len(releases[r]) : releases[r][i].removed}

\* C2: a request allocates exactly one workspace, its directory is removed at
\* most once, the success-path cleanup (direct or deferred) and the cleanup of
\* the exception handler never both run on it, and no release raises.
C2_OneWorkspaceOneRelease ==
    /\ ~fault
    /\ \A r \in Reqs :
        pc[r] # "idle" =>
            /\ Len(allocated[r]) = 1
            /\ Cardinality(Removals(r)) <= 1
            /\ ~(SuccessReleases(r) # {} /\ HandlerReleases(r) # {})
            /\ Cardinality(SuccessReleases(r)) <= 1

\* a request whose deferred cleanup has run and removed its directory
C2_Witness ==
    \E r \in Reqs :
        /\ Returned(r)
        /\ bg[r]
        /\ releases[r] = <<[by |-> "deferred", removed |-> TRUE]>>
        /\ temp_dir[r] \notin dirs

\* C3: when the decode stage fails, no inference attempt is invoked for the
\* request.
C3_NoAttemptAfterDecodeFailure ==
    \A r \in Reqs : DecodeFailure(r) => (invoked[r] = <<>> /\ approaches_tried[r] = 0)

\* ffmpeg exited zero and left an empty output file: the request is answered
\* 500 with no attempt made
C3_Witness ==
    \E r \in Reqs :
        /\ Returned(r)
        /\ convert_result[r].state = "exited"
        /\ convert_result[r].rc = 0
        /\ convert_result[r].wav = "empty"
        /\ resp[r].status = 500
        /\ invoked[r] = <<>>

\* C11: every decode failure is answered with status 500, never 200, whether
\* ffmpeg exited non-zero or exited zero leaving no output file or an empty
\* one; when ffmpeg exited non-zero the transcript field of the response
\* carries the text ffmpeg wrote on its standard error.
C11_DecodeFailureIs500 ==
    \A r \in Reqs :
        (Returned(r) /\ DecodeFailure(r)) =>
            /\ resp[r].status = 500
            /\ convert_result[r].rc # 0 =>
                   resp[r].transcript = ErrFfmpeg \o convert_result[r].stderr

\* ffmpeg exited non-zero with text on its standard error, and the request was
\* answered with it
C11_Witness ==
    \E r \in Reqs :
        /\ Returned(r)
        /\ convert_result[r].state = "exited"
        /\ convert_result[r].rc # 0
        /\ convert_result[r].stderr = <<"a">>
        /\ resp[r] = [status |-> 500, transcript |-> ErrFfmpeg \o <<"a">>]

\* C12: releasing a workspace is idempotent: cleanup_temp_files on a directory
\* that is not on disk (already removed, or never created) leaves the disk as
\* it is, removes nothing and raises nothing, so a second call after a first
\* one is a no-op.
C12_ReleaseIsIdempotent ==
    \A d \in Dirs :
        LET once == cleanup_temp_files(dirs, d)
            twice == cleanup_temp_files(once.dirs, d)
        IN /\ d \notin once.dirs
           /\ ~once.raised
           /\ twice.dirs = once.dirs /\ ~twice.removed /\ ~twice.raised
           /\ d \notin dirs => (once.dirs = dirs /\ ~once.removed)

\* the directory of a request was removed by its cleanup while the directory
\* of an earlier request is still on disk: a further cleanup_temp_files of
\* the removed one is the second call
C12_Witness ==
    \E r \in Reqs :
        /\ Returned(r)
        /\ \E i \in 1..Len(releases[r]) : releases[r][i].removed
        /\ temp_dir[r] \notin dirs
        /\ dirs # {}
        /\ cleanup_temp_files(dirs, temp_dir[r]).dirs = dirs

\* the inference run that ended last exited on its own
LastExited(r) == last_run[r].state = "exited"

\* C4: the chain stops at the first attempt whose extracted text is non-empty:
\* from then on the request invokes nothing more and keeps that text, which is
\* the transcript returned; when every attempt that ran left the text empty,
\* the response is the exhaustion message with status 200.
C4_ChainHaltsAtFirstText ==
    /\ [][\A r \in Reqs :
            (Truthy(transcript[r]) /\ pc'[r] # "idle") =>
                (invoked'[r] = invoked[r] /\ transcript'[r] = transcript[r])]_vars
    /\ [](\A r \in Reqs :
            (Returned(r) /\ LastExited(r)) =>
                IF Truthy(transcript[r])
                THEN resp[r] = [status |-> 200, transcript |-> transcript[r]]
                ELSE resp[r] = [status |-> 200, transcript |-> Sentinel])

\* the second attempt produced text where two more attempts could have run
C4_Witness ==
    \E r \in Reqs :
        /\ Returned(r)
        /\ Len(invoked[r]) = 2
        /\ Truthy(transcript[r])
        /\ resp[r] = [status |-> 200, transcript |-> transcript[r]]
        /\ MODEL_PATH = BASE_MODEL_PATH
        /\ ModelExists(fs, TINY_MODEL_PATH)

\* C5: an external process that never exits is ended and the request moves on:
\* a request whose handler has not returned can always take its next step.
C5_NoRequestBlocksForever ==
    \A r \in Reqs : pc[r] \notin {"idle", "done"} => ENABLED transcribe(r)

\* C6: an inference attempt that exits non-zero is a failed attempt, and what
\* it printed is never the transcript returned.
C6_NonZeroExitIsNotATranscript ==
    \A r \in Reqs :
        (Returned(r) /\ LastExited(r) /\ last_run[r].rc # 0) =>
            (resp[r].status = 200 => resp[r].transcript = Sentinel)

\* C7: a status-200 response other than the exhaustion message carries a
\* non-empty transcript.
C7_NoEmptyTranscript ==
    \A r \in Reqs :
        (Returned(r) /\ resp[r].status = 200 /\ resp[r].transcript # Sentinel) =>
            (resp[r].transcript # None /\ Len(resp[r].transcript) > 0)

\* a transcript is returned after the sidecar file was blank
C7_Witness ==
    \E r \in Reqs :
        /\ Returned(r)
        /\ resp[r].status = 200
        /\ resp[r].transcript = <<"a">>
        /\ Len(invoked[r]) = 3
        /\ bg[r]
        /\ "txt" \in artifacts[r]

\* the strategy of a command, read off its arguments
Strategy(cmd) ==
    IF cmd.model = TINY_MODEL_PATH /\ cmd.opts = <<>> THEN "fallback"
    ELSE IF cmd.opts \in {<<"--output-txt">>, <<"-otxt">>} THEN "standard"
    ELSE IF cmd.opts = <<"--print-special", "--print-progress">> THEN "streaming"
    ELSE IF cmd.opts \in {<<"--language", "en">>, <<"-l", "en">>} THEN "language en"
    ELSE IF cmd.opts \in {<<"--language", "auto">>, <<"-l", "auto">>} THEN "language auto"
    ELSE "other"

OrderOf(r) == [i \in 1..Len(invoked[r]) |-> Strategy(invoked[r][i])]
IsPrefix(s, t) == Len(s) <= Len(t) /\ s = SubSeq(t, 1, Len(s))

\* C8 as stated: the attempts run in the order standard, auto language
\* detection, streaming, fallback.
C8_OrderAsStated ==
    \A r \in Reqs :
        IsPrefix(OrderOf(r), <<"standard", "language auto", "streaming", "fallback">>)

\* C8 amended: the attempts run in the order standard, streaming, language
\* "en", fallback; the fallback runs only when the resolved model is the base
\* model and the tiny model file exists; an attempt is invoked only while the
\* text extracted so far is empty.
C8_OrderOfTheCode ==
    /\ [](\A r \in Reqs :
            /\ IsPrefix(OrderOf(r), <<"standard", "streaming", "language en", "fallback">>)
            /\ Len(invoked[r]) = 4 =>
                   (MODEL_PATH = BASE_MODEL_PATH /\ ModelExists(fs, TINY_MODEL_PATH)))
    /\ [][\A r \in Reqs :
            Len(invoked'[r]) > Len(invoked[r]) => ~Truthy(transcript[r])]_vars

\* all four attempts ran
C8_Witness ==
    \E r \in Reqs : Returned(r) /\ Len(invoked[r]) = 4 /\ LastExited(r)

\* the command the request is about to run
CommandAt(r) ==
    CASE pc[r] = "standard" -> whisper_cmd
      [] pc[r] = "stream" -> stream_cmd
      [] pc[r] = "lang" -> lang_cmd
      [] pc[r] = "tiny" -> tiny_cmd
Attempts == {"standard", "stream", "lang", "tiny"}
\* the sidecar file the run o left has text in it
SidecarHasText(o) == o.txt # None /\ Truthy(Strip(o.txt))

\* C14: extraction prefers the sidecar file: for every attempt about to run
\* and every way its run can end, a sidecar file with text in it gives exactly
\* its stripped content as the extracted text, whatever standard output holds;
\* the attempts that read standard output only run when the sidecar file of
\* attempt 1 was absent or blank (the text so far is empty) and write no
\* sidecar file of their own.
C14_SidecarPreferred ==
    \A r \in Reqs :
        pc[r] \in Attempts =>
            /\ \A o \in InferenceOutcomes(CommandAt(r)) :
                  (o.kind = "exit" /\ SidecarHasText(o)) =>
                      Extract(pc[r], transcript[r], o) = Strip(o.txt)
            /\ pc[r] # "standard" =>
                  /\ ~Truthy(transcript[r])
                  /\ \A o \in InferenceOutcomes(CommandAt(r)) :
                        o.kind = "exit" => o.txt = None

\* attempt 1 is about to run and can end with text in the sidecar file and
\* other text on standard output
C14_Witness ==
    \E r \in Reqs :
        /\ pc[r] = "standard"
        /\ \E o \in InferenceOutcomes(whisper_cmd) :
              /\ o.kind = "exit"
              /\ o.txt = <<"a">>
              /\ o.stdout = <<"[">>
              /\ ExtractStandard(transcript[r], o) = <<"a">>

\* the line filter as stated: non-blank, no warning pattern, no progress line
KeptAsStated(line) ==
    Strip(line) # <<>> /\ ~HasWarning(line) /\ ~StartsWithBracket(line)

\* C15: every attempt that parses standard output keeps a line exactly when
\* it is non-blank, matches no warning pattern and does not start with '[';
\* the extracted text is the kept lines joined, and an output of warning,
\* progress and blank lines only extracts to empty text in every attempt.
C15_OneLineFilter ==
    \A r \in Reqs :
        pc[r] \in Attempts =>
            \A o \in InferenceOutcomes(CommandAt(r)) :
                (o.kind = "exit" /\ ~SidecarHasText(o)) =>
                    LET kept == SelectSeq(Split(o.stdout), KeptAsStated)
                        text == Extract(pc[r], transcript[r], o)
                    IN IF kept # <<>> THEN text = Join(kept) ELSE ~Truthy(text)

\* the length of the strategy list
NumStrategies == Cardinality(Attempts)

\* C16: no strategy is retried: within a request each strategy is invoked at
\* most once, so the whisper binary is invoked at most four times, however
\* the attempts end.
C16_NoStrategyRetried ==
    \A r \in Reqs :
        /\ Len(invoked[r]) <= NumStrategies
        /\ approaches_tried[r] = Len(invoked[r])
        /\ \A i, j \in 1..Len(invoked[r]) :
              Strategy(invoked[r][i]) = Strategy(invoked[r][j]) => i = j

\* four invocations, the last of which exited non-zero, and the exhaustion
\* message returned
C16_Witness ==
    \E r \in Reqs :
        /\ Returned(r)
        /\ Len(invoked[r]) = 4
        /\ last_run[r] = Ended("exited", 1)
        /\ resp[r] = [status |-> 200, transcript |-> Sentinel]

\* the handler of request r is running
InFlight(r) == pc[r] \notin {"idle", "done"}

StandardOnTiny == [whisper_cmd EXCEPT !.model = TINY_MODEL_PATH]

\* C13: the fallback runs only after every attempt on the primary model left
\* the text empty, and it is attempt 1 against the tiny model: the same
\* arguments but for the model path, and the same extraction (sidecar file
\* first, then the filter of attempt 1 on standard output).
C13_FallbackRepeatsAttemptOne ==
    \A r \in Reqs :
        /\ pc[r] = "tiny" => (Len(invoked[r]) = 3 /\ ~Truthy(transcript[r]))
        /\ Len(invoked[r]) = 4 =>
              /\ invoked[r][4] = StandardOnTiny
              /\ \A o \in InferenceOutcomes(StandardOnTiny) :
                    o.kind = "exit" => ExtractTiny(None, o) = ExtractStandard(None, o)

\* the size Engine Discovery asks of a model (lines 37, 40)
DiscoveryMinSize(path) == IF path = BASE_MODEL_PATH THEN BaseMinSize ELSE TinyMinSize
ActiveModelValid ==
    ModelExists(fs, MODEL_PATH) /\ ModelSize(fs, MODEL_PATH) > DiscoveryMinSize(MODEL_PATH)
BinaryUsable ==
    BinaryExists(fs, WHISPER_BINARY) /\ BinaryExecutable(fs, WHISPER_BINARY)

\* the model file at path exists and is larger than the size discovery asks
CandidateValid(path) ==
    ModelExists(fs, path) /\ ModelSize(fs, path) > DiscoveryMinSize(path)

\* C18: discovery selects the first of base, tiny whose file exists and is
\* larger than its threshold (100,000,000 and 10,000,000 bytes); a model at or
\* below its threshold is never selected as valid, and the base path is the
\* default only when neither is valid.
C18_FirstValidModelSelected ==
    /\ CandidateValid(BASE_MODEL_PATH) => MODEL_PATH = BASE_MODEL_PATH
    /\ (~CandidateValid(BASE_MODEL_PATH) /\ CandidateValid(TINY_MODEL_PATH)) =>
           MODEL_PATH = TINY_MODEL_PATH
    /\ (~CandidateValid(BASE_MODEL_PATH) /\ ~CandidateValid(TINY_MODEL_PATH)) =>
           MODEL_PATH = BASE_MODEL_PATH
    /\ MODEL_PATH = TINY_MODEL_PATH => CandidateValid(TINY_MODEL_PATH)
    /\ MODEL_PATH \in {BASE_MODEL_PATH, TINY_MODEL_PATH}

\* the base model is exactly at its threshold, the tiny model is valid, and a
\* request runs the whisper binary on the tiny model
C18_Witness ==
    /\ ModelExists(fs, BASE_MODEL_PATH)
    /\ ModelSize(fs, BASE_MODEL_PATH) = BaseMinSize
    /\ MODEL_PATH = TINY_MODEL_PATH
    /\ \E r \in Reqs : invoked[r] # <<>> /\ invoked[r][1].model = TINY_MODEL_PATH

\* C19: the resolved binary path and the resolved model path are computed at
\* module load and no step of any handler (transcribe, test_whisper,
\* health_check, root) or background task changes them.
C19_ConfigNeverRebound ==
    [][WHISPER_BINARY' = WHISPER_BINARY /\ MODEL_PATH' = MODEL_PATH]_vars

\* the self-test answers with the configuration of module load after a
\* transcribe request has left its directory behind
C19_Witness ==
    /\ lastGet.kind = "test"
    /\ ~lastGet.error
    /\ lastGet.binary_path = ResolveBinary(fs)
    /\ lastGet.model_path = ResolveModel(fs)
    /\ dirs # {}

\* the directory of request r has been released or handed to a background task
ReleaseBegun(r) == releases[r] # <<>> \/ temp_dir[r] \in tasks
\* the steps of the handler that write or read the workspace
UsesWorkspace(r) == pc[r] \in {"save", "convert"} \cup Attempts

\* C20: within a request nothing in the workspace is used after its release:
\* whenever the handler is about to write the upload, run ffmpeg or the
\* whisper binary or read the sidecar file, the directory is on disk and
\* neither released nor scheduled for release; once the release has begun
\* the request writes no file and runs no command; and the response returned
\* after it has the transcript field only, holding the transcript or the
\* exhaustion message, with no directory name in it.
C20_NoUseAfterRelease ==
    /\ [](\A r \in Reqs :
            /\ UsesWorkspace(r) => (~ReleaseBegun(r) /\ temp_dir[r] \in dirs)
            /\ (Returned(r) /\ resp[r].status = 200) =>
                  /\ DOMAIN resp[r] = {"status", "transcript"}
                  /\ resp[r].transcript \in {Sentinel, transcript[r]})
    /\ [][\A r \in Reqs :
            (ReleaseBegun(r) /\ pc'[r] # "idle") =>
                (invoked'[r] = invoked[r] /\ artifacts'[r] \subseteq artifacts[r])]_vars

\* a transcript was returned with the release handed to a background task and
\* the upload, the WAV and the sidecar file still in the directory
C20_Witness ==
    \E r \in Reqs :
        /\ Returned(r)
        /\ temp_dir[r] \in tasks
        /\ artifacts[r] = {"input", "wav", "txt"}
        /\ Truthy(transcript[r])
        /\ resp[r] = [status |-> 200, transcript |-> transcript[r]]

\* the flag dialect of a command, read off its model and file flags
Dialect(cmd) ==
    IF cmd.mflag = "--model" /\ cmd.fflag = "--file" THEN "modern"
    ELSE IF cmd.mflag = "-m" /\ cmd.fflag = "-f" THEN "legacy"
    ELSE "mixed"
\* the dialect of the resolved binary
DialectOfBinary ==
    IF WHISPER_BINARY = WHISPER_BINARY_CLI THEN "modern" ELSE "legacy"

\* C21: every invocation of the whisper binary uses the flags of the resolved
\* binary: --model/--file exactly when it is whisper-cli, -m/-f otherwise; the
\* invocations of one request all use the same dialect, and the command of
\* the self-test follows the same rule.
C21_DialectMatchesBinary ==
    /\ \A r \in Reqs :
          /\ \A i \in 1..Len(invoked[r]) :
                /\ invoked[r][i].binary = WHISPER_BINARY
                /\ Dialect(invoked[r][i]) = DialectOfBinary
          /\ \A i, j \in 1..Len(invoked[r]) :
                Dialect(invoked[r][i]) = Dialect(invoked[r][j])
    /\ (lastGet.kind = "test" /\ ~lastGet.error) =>
          /\ lastGet.command.binary = WHISPER_BINARY
          /\ Dialect(lastGet.command) = DialectOfBinary

\* whisper-cli is the resolved binary and a request has made all four
\* invocations, the fallback included, with --model/--file
C21_Witness ==
    /\ WHISPER_BINARY = WHISPER_BINARY_CLI
    /\ \E r \in Reqs :
          /\ Len(invoked[r]) = 4
          /\ invoked[r][4].model = TINY_MODEL_PATH
          /\ \A i \in 1..4 : Dialect(invoked[r][i]) = "modern"

\* C9: /health answers healthy exactly when the binary exists and is
\* executable and the active model exists and is larger than the threshold
\* discovery applies to that model; a present active model at or below its
\* threshold is reported unhealthy with model status Invalid/Corrupted.
C9_HealthyIffEngineValid ==
    lastGet.kind = "health" =>
        /\ lastGet.status = "healthy" <=> (BinaryUsable /\ ActiveModelValid)
        /\ (ModelExists(fs, MODEL_PATH) /\ ~ActiveModelValid) =>
               (lastGet.status = "unhealthy" /\ lastGet.model_status = "Invalid/Corrupted")

\* C10: a request that reaches the attempt chain while the binary or the
\* model is missing or invalid ends with status 500.
C10_EngineUnavailableIs500 ==
    \A r \in Reqs :
        (Returned(r) /\ invoked[r] # <<>> /\ ~(BinaryUsable /\ ActiveModelValid)) =>
            resp[r].status = 500

====
